---- MODULE Spec2Model ----
(***************************************************************************)
(* Model of src/s3_csv_handler.py: parse_s3_path, the five S3 operations   *)
(* (upload_csv_to_s3, download_csv_from_s3, list_csv_files_in_s3,          *)
(* read_csv_from_s3, write_dataframe_to_s3) and the command dispatcher     *)
(* main().                                                                 *)
(*                                                                         *)
(* A Python str is a sequence of one-character strings, so that            *)
(* startswith, split, endswith, lower, basename and join are computed      *)
(* character by character as the code computes them.                       *)
(***************************************************************************)
EXTENDS Integers, Sequences, FiniteSets, TLC

VARIABLES
    s3_input,   \* the argument of a direct parse_s3_path call
    parsed,     \* what that call returned or raised
    given,      \* the backend's answer to a listing of s3_input, chosen beforehand
    files,      \* local filesystem: normalised path -> content of a regular file
    dirs,       \* local filesystem: normalised paths of the directories
    store,      \* backend: <<bucket, key>> -> content of the object
    op,         \* the last operation called and its arguments
    ret,        \* what it returned
    escaped,    \* the exception that left it ("none" when none did)
    calls,      \* the s3_client method calls it made, in order
    clients,    \* how many times it called boto3.client
    log,        \* the logger records it emitted
    invoked,    \* the operations main() called in the last process
    exitCode,   \* the last process's exit status (-1: no process exited)
    stdout,     \* the lines the last process printed
    nops        \* operations performed so far

vars == <<s3_input, parsed, given, files, dirs, store, op, ret, escaped, calls,
          clients, log, invoked, exitCode, stdout, nops>>

parseVars == <<s3_input, parsed, given>>
worldVars == <<files, dirs, store>>
opVars    == <<op, ret, escaped, calls, clients, log, invoked, exitCode, stdout, nops>>

----------------------------------------------------------------------------
(* Bounds of the model *)

\* longest text after the candidate scheme prefix in a direct parse_s3_path call
MaxTail == 5
\* most objects in one list_objects_v2 response
MaxListing == 3
\* most operations in one behaviour
MaxOps == 2

----------------------------------------------------------------------------
(* Python str operations *)

Slash == "/"

\* 's3://'
S3Scheme == <<"s", "3", ":", "/", "/">>

\* the literal 5 of s3_path[5:]
SchemeLen == 5

\* '.csv'
CsvSuffix == <<".", "c", "s", "v">>

\* str.startswith
StartsWith(s, p) == Len(s) >= Len(p) /\ SubSeq(s, 1, Len(p)) = p

\* str.endswith
EndsWith(s, p) == Len(s) >= Len(p) /\ SubSeq(s, Len(s) - Len(p) + 1, Len(s)) = p

\* str.find(c) + 1: the 1-based index of the first c, 0 when there is none
Find(s, c) ==
    IF \E i \in 1..Len(s) : s[i] = c
    THEN CHOOSE i \in 1..Len(s) : s[i] = c /\ \A j \in 1..(i - 1) : s[j] # c
    ELSE 0

\* str.rfind(c) + 1: the 1-based index of the last c, 0 when there is none
RFind(s, c) ==
    IF \E i \in 1..Len(s) : s[i] = c
    THEN CHOOSE i \in 1..Len(s) : s[i] = c /\ \A j \in (i + 1)..Len(s) : s[j] # c
    ELSE 0

\* a plausible slip: rsplit('/', 1), which cuts at the last '/'
SplitLast(s) ==
    LET i == RFind(s, Slash)
    IN  IF i = 0 THEN <<s>> ELSE <<SubSeq(s, 1, i - 1), SubSeq(s, i + 1, Len(s))>>

\* str.split('/', 1): at most one cut, at the first '/'
Split1(s) ==
    LET i == Find(s, Slash)
    IN  IF i = 0 THEN <<s>> ELSE <<SubSeq(s, 1, i - 1), SubSeq(s, i + 1, Len(s))>>

\* str.lower on one character of the model's alphabet
LowerChar(c) ==
    CASE c = "C" -> "c"
      [] c = "S" -> "s"
      [] c = "V" -> "v"
      [] OTHER   -> c

\* a plausible slip: the suffix test without .lower()
NoLower(s) == s

\* str.lower
lower(s) == [i \in 1..Len(s) |-> LowerChar(s[i])]

\* a plausible slip: startswith('s3:/'), one character short
HasSchemeShort(s3_path) == StartsWith(s3_path, SubSeq(S3Scheme, 1, SchemeLen - 1))

\* s3_path.startswith('s3://')
HasScheme(s3_path) == StartsWith(s3_path, S3Scheme)

\* parse_s3_path: exc is the exception raised ("none" when it returns),
\* val the returned tuple (bucket_name, key), empty when it raised
parse_s3_path(s3_path) ==
    IF ~HasScheme(s3_path)
    THEN [exc |-> "ValueError", val |-> <<>>]
    ELSE LET path_without_prefix == SubSeq(s3_path, SchemeLen + 1, Len(s3_path))
             parts == Split1(path_without_prefix)
             bucket_name == parts[1]
             key == IF Len(parts) > 1 THEN parts[2] ELSE <<>>
         IN  [exc |-> "none", val |-> <<bucket_name, key>>]

----------------------------------------------------------------------------
(* The local filesystem, as os.path and os see it *)

\* the path without its trailing slashes: the name the filesystem resolves it to
RECURSIVE Norm(_)
Norm(p) ==
    IF Len(p) > 1 /\ p[Len(p)] = Slash THEN Norm(SubSeq(p, 1, Len(p) - 1)) ELSE p

\* os.path.exists: a directory under any spelling, a regular file only without
\* a trailing slash, never the empty path
exists(p) ==
    /\ p # <<>>
    /\ \/ Norm(p) \in dirs
       \/ Norm(p) \in DOMAIN files /\ p[Len(p)] # Slash

\* os.path.basename: what follows the last '/'
basename(p) == SubSeq(p, RFind(p, Slash) + 1, Len(p))

\* a plausible slip: plain concatenation instead of os.path.join
JoinNoSeparator(a, b) == a \o b

\* os.path.join of two components
join(a, b) ==
    IF StartsWith(b, <<Slash>>) THEN b
    ELSE IF a = <<>> \/ EndsWith(a, <<Slash>>) THEN a \o b
    ELSE a \o <<Slash>> \o b

\* the proper ancestors of a path
Ancestors(p) == {SubSeq(p, 1, i - 1) : i \in {j \in 2..Len(p) : p[j] = Slash}}

\* a plausible slip: the directory is not created
MakedirsNothing(d) == [exc |-> "none", dirs |-> dirs]

\* os.makedirs: creates the directory and its missing ancestors; raises on the
\* empty path and when a regular file is in the way
makedirs(d) ==
    IF \/ d = <<>>
       \/ Norm(d) \in DOMAIN files
       \/ Ancestors(Norm(d)) \cap DOMAIN files # {}
    THEN [exc |-> "OSError", dirs |-> dirs]
    ELSE [exc |-> "none", dirs |-> dirs \cup {Norm(d)} \cup Ancestors(Norm(d))]

\* f with key k set to v
Put(f, k, v) == [x \in DOMAIN f \cup {k} |-> IF x = k THEN v ELSE f[x]]

----------------------------------------------------------------------------
(* The backend, as the s3_client methods see it.  env is what the backend  *)
(* does with a well-formed request: "ok", "ClientError" (a transport,      *)
(* authentication, permission error) or "Exception" (any other error).     *)

BackendOutcomes == {"ok", "ClientError", "Exception"}

NoResponse == [hasContents |-> FALSE, Contents |-> <<>>]

\* s3_client.upload_file(local_file_path, bucket_name, s3_key)
upload_file(local_file_path, bucket_name, s3_key, env) ==
    IF Norm(local_file_path) \notin DOMAIN files \/ local_file_path[Len(local_file_path)] = Slash
    THEN [exc |-> "OSError", store |-> store]
    ELSE IF bucket_name = <<>> \/ s3_key = <<>>
    THEN [exc |-> "ParamValidationError", store |-> store]
    ELSE IF env # "ok"
    THEN [exc |-> env, store |-> store]
    ELSE [exc |-> "none",
          store |-> Put(store, <<bucket_name, s3_key>>, files[Norm(local_file_path)])]

\* s3_client.download_file(bucket_name, s3_key, local_file_path), with the
\* directories dirsNow on the local filesystem
download_file(bucket_name, s3_key, local_file_path, env, dirsNow) ==
    IF bucket_name = <<>> \/ s3_key = <<>>
    THEN [exc |-> "ParamValidationError", files |-> files]
    ELSE IF env # "ok"
    THEN [exc |-> env, files |-> files]
    ELSE IF <<bucket_name, s3_key>> \notin DOMAIN store
    THEN [exc |-> "ClientError", files |-> files]
    ELSE IF \/ local_file_path = <<>>
            \/ local_file_path[Len(local_file_path)] = Slash
            \/ Norm(local_file_path) \in dirsNow
            \/ Ancestors(local_file_path) \cap DOMAIN files # {}
            \/ ~(Ancestors(local_file_path) \subseteq dirsNow)
    THEN [exc |-> "OSError", files |-> files]
    ELSE [exc |-> "none",
          files |-> Put(files, local_file_path, store[<<bucket_name, s3_key>>])]

\* s3_client.list_objects_v2(Bucket=bucket_name, Prefix=prefix)
list_objects_v2(bucket_name, prefix, env, response) ==
    IF bucket_name = <<>>
    THEN [exc |-> "ParamValidationError", response |-> NoResponse]
    ELSE IF env # "ok"
    THEN [exc |-> env, response |-> NoResponse]
    ELSE [exc |-> "none", response |-> response]

\* s3_client.get_object(Bucket=bucket_name, Key=key)
get_object(bucket_name, key, env) ==
    IF bucket_name = <<>> \/ key = <<>>
    THEN [exc |-> "ParamValidationError", Body |-> <<>>]
    ELSE IF env # "ok"
    THEN [exc |-> env, Body |-> <<>>]
    ELSE IF <<bucket_name, key>> \notin DOMAIN store
    THEN [exc |-> "ClientError", Body |-> <<>>]
    ELSE [exc |-> "none", Body |-> store[<<bucket_name, key>>]]

\* s3_client.put_object(Bucket=bucket_name, Key=key, Body=csv_buffer)
put_object(bucket_name, key, csv_buffer, env) ==
    IF bucket_name = <<>> \/ key = <<>>
    THEN [exc |-> "ParamValidationError", store |-> store]
    ELSE IF env # "ok"
    THEN [exc |-> env, store |-> store]
    ELSE [exc |-> "none", store |-> Put(store, <<bucket_name, key>>, csv_buffer)]

\* pd.read_csv: the first line names the columns; no columns to parse is an error
read_csv(body) ==
    IF body = <<>> \/ body[1] = ""
    THEN [exc |-> "EmptyDataError", df |-> [columns |-> "", rows |-> <<>>]]
    ELSE [exc |-> "none", df |-> [columns |-> body[1], rows |-> Tail(body)]]

\* df.to_csv(index=False): the header line, then one line per row
to_csv(df) == <<df.columns>> \o df.rows

----------------------------------------------------------------------------
(* Return values, log records, exception handlers *)

RetTrue == [tag |-> "True", val |-> <<>>]
RetFalse == [tag |-> "False", val |-> <<>>]
RetNone == [tag |-> "None", val |-> <<>>]
RetStr(s) == [tag |-> "str", val |-> s]
RetList(l) == [tag |-> "list", val |-> l]
RetDataFrame(df) == [tag |-> "DataFrame", val |-> <<df>>]
NoReturn == [tag |-> "raised", val |-> <<>>]

\* f"s3://{bucket_name}/{key}"
S3Uri(bucket_name, key) == S3Scheme \o bucket_name \o <<Slash>> \o key

Info(msg, arg) == [level |-> "INFO", msg |-> msg, arg |-> arg, exc |-> "none"]
Error(msg, arg, exc) == [level |-> "ERROR", msg |-> msg, arg |-> arg, exc |-> exc]

\* the exception classes the model raises; each derives from Exception
ExceptionClasses ==
    {"ValueError", "ClientError", "OSError", "ParamValidationError",
     "EmptyDataError", "Exception"}

\* a plausible slip: the handlers without their except Exception clause
CatchesNothingElse(exc) == FALSE

\* except Exception: catches every class deriving from Exception
IsException(exc) == exc \in ExceptionClasses

\* the state an operation starts from: nothing returned, nothing done
Start ==
    [ret |-> NoReturn, escaped |-> "none", calls |-> <<>>, clients |-> 0,
     log |-> <<>>, store |-> store, files |-> files, dirs |-> dirs]

\* the two except clauses closing each operation: except ClientError, then
\* except Exception, each logging and returning the operation's failure value.
\* The five operations differ only in the message and the failure value.
Handler(exc, failure, clientMsg, r) ==
    IF exc = "ClientError"
    THEN [r EXCEPT !.ret = failure, !.log = Append(@, Error(clientMsg, <<>>, exc))]
    ELSE IF IsException(exc)
    THEN [r EXCEPT !.ret = failure,
                   !.log = Append(@, Error("Unexpected error", <<>>, exc))]
    ELSE [r EXCEPT !.escaped = exc]

\* a plausible slip: a failed request is issued a second time
RequestWithRetry(api, bucket_name, key, exc, response) ==
    LET c == [api |-> api, bucket |-> bucket_name, key |-> key, exc |-> exc,
              response |-> response]
    IN  IF exc = "none" THEN <<c>> ELSE <<c, c>>

\* the requests one s3_client method call of an operation issues: one
Request(api, bucket_name, key, exc, response) ==
    <<[api |-> api, bucket |-> bucket_name, key |-> key, exc |-> exc,
       response |-> response]>>

----------------------------------------------------------------------------
(* The five operations.  Each yields the record of what it returned and    *)
(* did: ret, escaped, calls, clients, log and the new store, files, dirs.  *)

\* a plausible slip: the check of the local file left out
NeverMissing(local_file_path) == FALSE

\* not os.path.exists(local_file_path)
LocalFileMissing(local_file_path) == ~exists(local_file_path)

\* a plausible slip: the prefix used as it is
PrefixAsIs(key_prefix) == key_prefix

\* if key_prefix and not key_prefix.endswith('/'): key_prefix += '/'
WithSeparator(key_prefix) ==
    IF key_prefix # <<>> /\ ~EndsWith(key_prefix, <<Slash>>)
    THEN key_prefix \o <<Slash>>
    ELSE key_prefix

upload_csv_to_s3(local_file_path, s3_path, env) ==
    IF LocalFileMissing(local_file_path)
    THEN [Start EXCEPT !.ret = RetFalse,
                       !.log = <<Error("Local file not found", local_file_path, "none")>>]
    ELSE
    LET p == parse_s3_path(s3_path) IN
    IF p.exc # "none"
    THEN Handler(p.exc, RetFalse, "Error uploading file to S3", Start)
    ELSE
    LET bucket_name == p.val[1]
        filename == basename(local_file_path)
        s3_key == WithSeparator(p.val[2]) \o filename
        res == upload_file(local_file_path, bucket_name, s3_key, env)
        r == [Start EXCEPT
                !.clients = 1,
                !.log = <<Info("Uploading", S3Uri(bucket_name, s3_key))>>,
                !.calls = Request("upload_file", bucket_name, s3_key, res.exc, NoResponse),
                !.store = res.store]
    IN  IF res.exc # "none"
        THEN Handler(res.exc, RetFalse, "Error uploading file to S3", r)
        ELSE [r EXCEPT !.ret = RetTrue,
                       !.log = Append(@, Info("Upload successful",
                                              S3Uri(bucket_name, s3_key)))]

download_csv_from_s3(s3_path, local_directory, env) ==
    LET p == parse_s3_path(s3_path) IN
    IF p.exc # "none"
    THEN Handler(p.exc, RetNone, "Error downloading file from S3", Start)
    ELSE
    LET bucket_name == p.val[1]
        s3_key == p.val[2]
        made == IF ~exists(local_directory)
                THEN makedirs(local_directory)
                ELSE [exc |-> "none", dirs |-> dirs]
        r0 == [Start EXCEPT !.dirs = made.dirs]
    IN
    IF made.exc # "none"
    THEN Handler(made.exc, RetNone, "Error downloading file from S3", r0)
    ELSE
    LET filename == basename(s3_key)
        local_file_path == join(local_directory, filename)
        res == download_file(bucket_name, s3_key, local_file_path, env, made.dirs)
        r == [r0 EXCEPT
                !.clients = 1,
                !.log = <<Info("Downloading", S3Uri(bucket_name, s3_key))>>,
                !.calls = Request("download_file", bucket_name, s3_key, res.exc, NoResponse),
                !.files = res.files]
    IN  IF res.exc # "none"
        THEN Handler(res.exc, RetNone, "Error downloading file from S3", r)
        ELSE [r EXCEPT !.ret = RetStr(local_file_path),
                       !.log = Append(@, Info("Download successful", local_file_path))]

\* the loop over response['Contents']: the keys whose lower-cased form ends in
\* '.csv', each as f"s3://{bucket_name}/{key}", in the order of the response
RECURSIVE csv_files(_, _)
csv_files(Contents, bucket_name) ==
    IF Contents = <<>> THEN <<>>
    ELSE LET key == Head(Contents)
             rest == csv_files(Tail(Contents), bucket_name)
         IN  IF EndsWith(lower(key), CsvSuffix)
             THEN <<S3Uri(bucket_name, key)>> \o rest
             ELSE rest

list_csv_files_in_s3(s3_path, env, response) ==
    LET p == parse_s3_path(s3_path) IN
    IF p.exc # "none"
    THEN Handler(p.exc, RetList(<<>>), "Error listing files in S3", Start)
    ELSE
    LET bucket_name == p.val[1]
        prefix == p.val[2]
        res == list_objects_v2(bucket_name, prefix, env, response)
        r == [Start EXCEPT
                !.clients = 1,
                !.log = <<Info("Listing CSV files in", S3Uri(bucket_name, prefix))>>,
                !.calls = Request("list_objects_v2", bucket_name, prefix, res.exc,
                                  res.response)]
    IN  IF res.exc # "none"
        THEN Handler(res.exc, RetList(<<>>), "Error listing files in S3", r)
        ELSE [r EXCEPT !.ret = RetList(IF res.response.hasContents
                                       THEN csv_files(res.response.Contents, bucket_name)
                                       ELSE <<>>)]

read_csv_from_s3(s3_path, env) ==
    LET p == parse_s3_path(s3_path) IN
    IF p.exc # "none"
    THEN Handler(p.exc, RetNone, "Error reading CSV from S3", Start)
    ELSE
    LET bucket_name == p.val[1]
        key == p.val[2]
        obj == get_object(bucket_name, key, env)
        r == [Start EXCEPT
                !.clients = 1,
                !.log = <<Info("Reading CSV from", S3Uri(bucket_name, key))>>,
                !.calls = Request("get_object", bucket_name, key, obj.exc, NoResponse)]
    IN  IF obj.exc # "none"
        THEN Handler(obj.exc, RetNone, "Error reading CSV from S3", r)
        ELSE LET t == read_csv(obj.Body)
             IN  IF t.exc # "none"
                 THEN Handler(t.exc, RetNone, "Error reading CSV from S3", r)
                 ELSE [r EXCEPT !.ret = RetDataFrame(t.df),
                                !.log = Append(@, Info("Successfully read CSV", <<>>))]

write_dataframe_to_s3(df, s3_path, env) ==
    LET p == parse_s3_path(s3_path) IN
    IF p.exc # "none"
    THEN Handler(p.exc, RetFalse, "Error writing DataFrame to S3", Start)
    ELSE
    LET bucket_name == p.val[1]
        key == p.val[2]
        csv_buffer == to_csv(df)
        res == put_object(bucket_name, key, csv_buffer, env)
        r == [Start EXCEPT
                !.clients = 1,
                !.log = <<Info("Writing DataFrame to", S3Uri(bucket_name, key))>>,
                !.calls = Request("put_object", bucket_name, key, res.exc, NoResponse),
                !.store = res.store]
    IN  IF res.exc # "none"
        THEN Handler(res.exc, RetFalse, "Error writing DataFrame to S3", r)
        ELSE [r EXCEPT !.ret = RetTrue,
                       !.log = Append(@, Info("Successfully wrote DataFrame to",
                                              S3Uri(bucket_name, key)))]

----------------------------------------------------------------------------
(* Direct calls of parse_s3_path *)

NotParsed == [exc |-> "not called", val |-> <<>>]

\* the characters of the text after the candidate prefix
TailAlphabet == {"/", "b", "k"}

\* every string over alphabet of length at most n
StringsUpTo(alphabet, n) == UNION {[1..m -> alphabet] : m \in 0..n}

\* the scheme prefix and near misses of it
Heads ==
    { S3Scheme,
      <<>>,
      <<"s", "3", ":", "/">>,
      <<"s", "3", ":">>,
      <<"S", "3", ":", "/", "/">>,
      <<"3", ":", "/", "/">>,
      <<"s", "3", "/", "/">>,
      <<"/", "s", "3", ":", "/", "/">> }

ParseInputs == {h \o t : h \in Heads, t \in StringsUpTo(TailAlphabet, MaxTail)}

InitWorld ==
    /\ files = (<<"f", ".", "c", "s", "v">> :> <<"h", "r1">>)
    /\ dirs = {<<"d", "a", "t", "a">>}
    /\ store = <<>>

InitOps ==
    /\ op = [name |-> "init", src |-> <<>>, dst |-> <<>>, df |-> <<>>]
    /\ ret = [tag |-> "raised", val |-> <<>>]
    /\ escaped = "none"
    /\ calls = <<>>
    /\ clients = 0
    /\ log = <<>>
    /\ invoked = <<>>
    /\ exitCode = -1
    /\ stdout = <<>>
    /\ nops = 0

NotGiven == [env |-> "ok", response |-> NoResponse]

InitParse ==
    /\ s3_input \in ParseInputs
    /\ parsed = NotParsed
    /\ given = NotGiven
    /\ InitWorld
    /\ InitOps

\* one call parse_s3_path(s3_input)
ParsePath ==
    /\ parsed = NotParsed
    /\ parsed' = parse_s3_path(s3_input)
    /\ UNCHANGED <<s3_input, given, worldVars, opVars>>

NextParse == ParsePath

SpecParse == InitParse /\ [][NextParse]_vars

----------------------------------------------------------------------------
(* The command dispatcher and the library calls, on small sets of inputs *)

Bucket == <<"b">>
FCsv == <<"f", ".", "c", "s", "v">>
GCsv == <<"g", ".", "c", "s", "v">>
DataDir == <<"d", "a", "t", "a">>
OutDir == <<"o", "u", "t">>

\* local file arguments: a file, a missing file, a directory, and a file that
\* exists only once a download has put it there
LocalFileInputs == {FCsv, GCsv, DataDir, DataDir \o <<Slash>> \o FCsv}

\* local directory arguments: empty, a directory, a missing one under two
\* spellings, and a regular file
LocalDirInputs == {<<>>, DataDir, OutDir, OutDir \o <<Slash>>, FCsv}

\* S3 path arguments: with and without key, with and without trailing slash,
\* without the scheme, with an empty bucket
S3PathInputs ==
    { S3Scheme \o Bucket,
      S3Scheme \o Bucket \o <<"/", "d">>,
      S3Scheme \o Bucket \o <<"/", "d", "/">>,
      S3Scheme \o Bucket \o <<"/", "d", "/">> \o FCsv,
      Bucket \o <<"/", "d", "/">> \o FCsv,
      S3Scheme \o <<"/", "d">> }

\* the keys a listing response may hold
ListingKeys ==
    { <<"a", ".", "c", "s", "v">>,
      <<"b", ".", "t", "x", "t">>,
      <<"C", ".", "C", "S", "V">>,
      <<"c", "s", "v">> }

\* the listing responses: 'Contents' present with up to MaxListing objects, or absent
Responses ==
    {[hasContents |-> TRUE, Contents |-> c] : c \in StringsUpTo(ListingKeys, MaxListing)}
        \cup {NoResponse}

\* a few of them: no 'Contents', one object, and three objects of which two are CSV
SampleResponses ==
    { NoResponse,
      [hasContents |-> TRUE, Contents |-> <<<<"b", ".", "t", "x", "t">>>>],
      [hasContents |-> TRUE,
       Contents |-> << <<"a", ".", "c", "s", "v">>, <<"b", ".", "t", "x", "t">>,
                       <<"C", ".", "C", "S", "V">> >>] }

\* what the backend may answer a listing request: a response when it answers,
\* nothing to choose when it fails
Answers(env, responses) == IF env = "ok" THEN responses ELSE {NoResponse}

\* the DataFrames written: one with a column and a row, and the empty one
Tables == {[columns |-> "h", rows |-> <<"r2">>], [columns |-> "", rows |-> <<>>]}

\* bool(value): what `if value` sees
Truthy(r) ==
    \/ r.tag = "True"
    \/ r.tag \in {"str", "list"} /\ r.val # <<>>
    \/ r.tag = "DataFrame"

\* a plausible slip: the exit status does not depend on the result
AlwaysZero(success) == 0

\* 0 if success else 1
ExitStatus(success) == IF success THEN 0 ELSE 1

\* the new state after an operation that returned or did r
Effects(r) ==
    /\ ret' = r.ret
    /\ escaped' = r.escaped
    /\ calls' = r.calls
    /\ clients' = r.clients
    /\ log' = r.log
    /\ store' = r.store
    /\ files' = r.files
    /\ dirs' = r.dirs
    /\ nops' = nops + 1
    /\ UNCHANGED parseVars

\* the exit status of a process whose operation did r: sys.exit(status) when it
\* returned, 1 (the interpreter's status for an uncaught exception) when it raised
ProcessExit(r, status) == IF r.escaped # "none" THEN 1 ELSE status

\* main() with --upload source destination
MainUpload ==
    /\ nops < MaxOps
    /\ \E source \in LocalFileInputs, destination \in S3PathInputs, env \in BackendOutcomes :
        LET r == upload_csv_to_s3(source, destination, env) IN
        /\ Effects(r)
        /\ op' = [name |-> "upload", src |-> source, dst |-> destination, df |-> <<>>]
        /\ invoked' = <<"upload_csv_to_s3">>
        /\ exitCode' = ProcessExit(r, ExitStatus(Truthy(r.ret)))
        /\ stdout' = <<>>

\* main() with --download source destination
MainDownload ==
    /\ nops < MaxOps
    /\ \E source \in S3PathInputs, destination \in LocalDirInputs, env \in BackendOutcomes :
        LET r == download_csv_from_s3(source, destination, env) IN
        /\ Effects(r)
        /\ op' = [name |-> "download", src |-> source, dst |-> destination, df |-> <<>>]
        /\ invoked' = <<"download_csv_from_s3">>
        /\ exitCode' = ProcessExit(r, ExitStatus(Truthy(r.ret)))
        /\ stdout' = <<>>

\* main() with --list source destination (destination is not used), the
\* backend doing env and answering response
List(source, env, response) ==
        LET r == list_csv_files_in_s3(source, env, response) IN
        /\ Effects(r)
        /\ op' = [name |-> "list", src |-> source, dst |-> <<>>, df |-> <<>>]
        /\ invoked' = <<"list_csv_files_in_s3">>
        /\ exitCode' = ProcessExit(r, 0)
        /\ stdout' = IF r.escaped # "none" THEN <<>> ELSE r.ret.val

MainList ==
    /\ nops < MaxOps
    /\ \E source \in S3PathInputs, env \in BackendOutcomes :
       \E response \in Answers(env, SampleResponses) :
          List(source, env, response)

\* the first process of a behaviour is main() with --list s3_input, the backend
\* answering as given
MainListGiven ==
    /\ nops = 0
    /\ List(s3_input, given.env, given.response)

\* a library call read_csv_from_s3(s3_path)
ReadCsv ==
    /\ nops < MaxOps
    /\ \E s3_path \in S3PathInputs, env \in BackendOutcomes :
        LET r == read_csv_from_s3(s3_path, env) IN
        /\ Effects(r)
        /\ op' = [name |-> "read", src |-> s3_path, dst |-> <<>>, df |-> <<>>]
        /\ invoked' = <<>>
        /\ exitCode' = -1
        /\ stdout' = <<>>

\* a library call write_dataframe_to_s3(df, s3_path)
WriteDataFrame ==
    /\ nops < MaxOps
    /\ \E df \in Tables, s3_path \in S3PathInputs, env \in BackendOutcomes :
        LET r == write_dataframe_to_s3(df, s3_path, env) IN
        /\ Effects(r)
        /\ op' = [name |-> "write", src |-> <<>>, dst |-> s3_path, df |-> <<df>>]
        /\ invoked' = <<>>
        /\ exitCode' = -1
        /\ stdout' = <<>>

Init ==
    /\ s3_input = <<>>
    /\ parsed = NotParsed
    /\ given = NotGiven
    /\ InitWorld
    /\ InitOps

Next ==
    \/ MainUpload
    \/ MainDownload
    \/ MainList
    \/ ReadCsv
    \/ WriteDataFrame

Spec == Init /\ [][Next]_vars

\* a listing of any path, answered by any response of up to MaxListing objects
InitList ==
    /\ s3_input \in S3PathInputs
    /\ parsed = NotParsed
    /\ given \in {[env |-> e, response |-> a] :
                    e \in BackendOutcomes, a \in Responses}
    /\ InitWorld
    /\ InitOps

NextList == MainListGiven

SpecList == InitList /\ [][NextList]_vars

----------------------------------------------------------------------------
(* Properties *)

\* the characters of a string
Chars(s) == {s[i] : i \in 1..Len(s)}

\* the last component of a local path: what follows its last '/'
FileName(p) ==
    CHOOSE f \in {SubSeq(p, i, Len(p)) : i \in 1..(Len(p) + 1)} :
        /\ Slash \notin Chars(f)
        /\ Len(f) = Len(p) \/ p[Len(p) - Len(f)] = Slash

\* the path names a regular file of the local filesystem
IsRegularFile(p) == p # <<>> /\ p[Len(p)] # Slash /\ p \in DOMAIN files

\* nothing is at the path on the local filesystem
IsAbsent(p) == Norm(p) \notin dirs /\ Norm(p) \notin DOMAIN files

\* the text starts with the five characters s 3 : / /
SchemeAhead(s) == Len(s) >= Len(S3Scheme) /\ \A i \in 1..Len(S3Scheme) : s[i] = S3Scheme[i]

\* the last operation made exactly one backend call, and it succeeded
Transferred == Len(calls) = 1 /\ calls[1].exc = "none"

\* C1: for every bucket b without '/' and every key k, parse_s3_path of
\* 's3://' + b + '/' + k returns exactly (b, k), and of 's3://' + b returns (b, '')
C1_ParseSplitsAtFirstSlash ==
    parsed # NotParsed =>
        \A n \in 0..(Len(s3_input) - Len(S3Scheme)) :
            LET b == SubSeq(s3_input, Len(S3Scheme) + 1, Len(S3Scheme) + n)
                after == SubSeq(s3_input, Len(S3Scheme) + n + 1, Len(s3_input))
            IN  (SchemeAhead(s3_input) /\ Slash \notin Chars(b)) =>
                    /\ after = <<>> => parsed = [exc |-> "none", val |-> <<b, <<>>>>]
                    /\ (after # <<>> /\ after[1] = Slash) =>
                           parsed = [exc |-> "none", val |-> <<b, Tail(after)>>]

\* C1 witness: 's3://b/k/k' was parsed into bucket 'b' and key 'k/k'
C1_Witness ==
    /\ s3_input = S3Scheme \o <<"b", "/", "k", "/", "k">>
    /\ parsed = [exc |-> "none", val |-> << <<"b">>, <<"k", "/", "k">> >>]

\* C2: parse_s3_path of a string that does not start with 's3://' raises the
\* invalid-path error and returns no bucket/key pair
C2_ParseRejectsOtherSchemes ==
    (parsed # NotParsed /\ ~SchemeAhead(s3_input)) =>
        (parsed.exc = "ValueError" /\ parsed.val = <<>>)

\* C2 witness: 's3:/b', one slash short, was rejected
C2_Witness ==
    /\ s3_input = <<"s", "3", ":", "/", "b">>
    /\ parsed.exc = "ValueError"

\* the values an operation may return: its success value or its failure value
Returns(name) ==
    CASE name = "upload"   -> {"True", "False"}
      [] name = "download" -> {"str", "None"}
      [] name = "list"     -> {"list"}
      [] name = "read"     -> {"DataFrame", "None"}
      [] name = "write"    -> {"True", "False"}
      [] OTHER             -> {}

\* C3: no error escapes upload, download, list, readTable or writeTable, whatever
\* the path and the backend outcome: each returns its success or failure value
C3_NoErrorEscapes ==
    op.name # "init" =>
        /\ escaped = "none"
        /\ ret.tag \in Returns(op.name)

\* C3 witness: a download of a path without the scheme returned None, the
\* ValueError logged as an unexpected error
C3_Witness ==
    /\ op.name = "download"
    /\ ~SchemeAhead(op.src)
    /\ ret = RetNone
    /\ log # <<>>
    /\ log[Len(log)].exc = "ValueError"

\* C4: an upload of a local path that does not exist returns failure without
\* creating a client, issuing a backend call or changing the backend
C4_MissingFileNoBackend ==
    [][(op'.name = "upload" /\ nops' = nops + 1 /\ IsAbsent(op'.src)) =>
          (ret' = RetFalse /\ clients' = 0 /\ calls' = <<>> /\ store' = store)]_vars

\* C4 witness: the missing g.csv was uploaded to a well-formed destination
C4_Witness ==
    /\ op.name = "upload"
    /\ op.src = GCsv
    /\ op.dst = S3Scheme \o Bucket \o <<"/", "d", "/">>
    /\ ret = RetFalse

\* the key's last four characters are '.csv' in any mix of cases
IsCsvKey(k) ==
    /\ Len(k) >= 4
    /\ k[Len(k) - 3] = "."
    /\ k[Len(k) - 2] \in {"c", "C"}
    /\ k[Len(k) - 1] \in {"s", "S"}
    /\ k[Len(k)] \in {"v", "V"}

\* C5: list returns exactly the keys of the response ending in '.csv' in any
\* case, each as 's3://' + bucket + '/' + key, in the order of the response
C5_ListFiltersCsv ==
    (op.name = "list" /\ Transferred) =>
        LET resp == calls[1].response
            keys == IF resp.hasContents THEN resp.Contents ELSE <<>>
            sel == SelectSeq(keys, IsCsvKey)
            b == parse_s3_path(op.src).val[1]
        IN  ret = RetList([i \in 1..Len(sel) |-> S3Scheme \o b \o <<Slash>> \o sel[i]])

\* C5 witness: the response [a.csv, b.txt, C.CSV] was listed as
\* [s3://b/a.csv, s3://b/C.CSV]
C5_Witness ==
    /\ op.name = "list"
    /\ Transferred
    /\ calls[1].response.Contents =
          << <<"a", ".", "c", "s", "v">>, <<"b", ".", "t", "x", "t">>,
             <<"C", ".", "C", "S", "V">> >>
    /\ ret.val = << S3Scheme \o Bucket \o <<"/", "a", ".", "c", "s", "v">>,
                    S3Scheme \o Bucket \o <<"/", "C", ".", "C", "S", "V">> >>

\* the backend failed the last operation
BackendFailed == \E i \in 1..Len(calls) : calls[i].exc \in {"ClientError", "Exception"}

\* C6: with a backend that does not fail, uploading an existing local file named
\* f to 's3://bucket/dir/' and then downloading 's3://bucket/dir/' + f into a
\* local directory succeeds twice and yields a file named f there with the
\* original's content
C6_RoundTrip ==
    [][( /\ op.name = "upload"
         /\ IsRegularFile(op.src)
         /\ SchemeAhead(op.dst)
         /\ Len(op.dst) > Len(S3Scheme) + 1
         /\ op.dst[Len(S3Scheme) + 1] # Slash
         /\ op.dst[Len(op.dst)] = Slash
         /\ ~BackendFailed
         /\ op'.name = "download"
         /\ nops' = nops + 1
         /\ op'.src = op.dst \o FileName(op.src)
         /\ op'.dst # <<>>
         /\ Norm(op'.dst) \notin DOMAIN files
         /\ ~BackendFailed' ) =>
            LET target == Norm(op'.dst) \o <<Slash>> \o FileName(op.src)
            IN  /\ ret = RetTrue
                /\ ret' = RetStr(target)
                /\ target \in DOMAIN files'
                /\ files'[target] = files[op.src]]_vars

\* C6 witness: f.csv went to s3://b/d/ and came back from s3://b/d/f.csv into
\* the new directory out
C6_Witness ==
    /\ op.name = "download"
    /\ op.src = S3Scheme \o Bucket \o <<"/", "d", "/">> \o FCsv
    /\ op.dst = OutDir
    /\ ret = RetStr(OutDir \o <<Slash>> \o FCsv)
    /\ (OutDir \o <<Slash>> \o FCsv) \in DOMAIN files
    /\ files[OutDir \o <<Slash>> \o FCsv] = <<"h", "r1">>

\* C7: the dispatcher calls exactly one operation and maps its result to the
\* exit code: --upload and --download exit 0 exactly on success and 1 exactly
\* on failure; --list prints each path found and always exits 0
C7_ExitCodes ==
    op.name \in {"upload", "download", "list"} =>
        /\ Len(invoked) = 1
        /\ op.name \in {"upload", "download"} =>
              /\ exitCode \in {0, 1}
              /\ exitCode = 0 <=> Transferred
        /\ op.name = "list" =>
              /\ exitCode = 0
              /\ stdout = ret.val

\* C7 witness: a listing that failed on a backend error exited 0
C7_Witness ==
    /\ op.name = "list"
    /\ Len(calls) = 1
    /\ calls[1].exc = "ClientError"
    /\ exitCode = 0
    /\ stdout = <<>>

\* the last operation logged an error
LoggedError == \E i \in 1..Len(log) : log[i].level = "ERROR"

\* the last operation ended in success: its one call went through, nothing was
\* logged as an error, and it returned a success value
Succeeded ==
    Transferred /\ ~LoggedError /\ ret.tag \in {"True", "str", "list", "DataFrame"}

\* the last operation ended in failure: it logged an error and returned its
\* failure value
Failed == LoggedError /\ ret \in {RetFalse, RetNone, RetList(<<>>)}

\* C8: every operation issues at most one backend call, none after a failure,
\* and ends in exactly one of two outcomes, success or failure
C8_OneRoundTrip ==
    op.name # "init" =>
        /\ Len(calls) \in {0, 1}
        /\ clients \in {0, 1}
        /\ Succeeded \/ Failed
        /\ ~(Succeeded /\ Failed)

\* C8 witness: a write failed by the backend was not tried again
C8_Witness ==
    /\ op.name = "write"
    /\ Len(calls) = 1
    /\ calls[1].exc = "ClientError"
    /\ ret = RetFalse

\* C9 as stated: the key is the prefix, a '/' added whenever the prefix lacks
\* a trailing one, then the basename
C9_Original ==
    (op.name = "upload" /\ calls # <<>>) =>
        LET prefix == parse_s3_path(op.dst).val[2]
        IN  calls[1].key =
                (IF prefix # <<>> /\ prefix[Len(prefix)] = Slash
                 THEN prefix ELSE prefix \o <<Slash>>) \o FileName(op.src)

\* C9 as amended: the key is the prefix, a '/' added when the prefix is not
\* empty and lacks a trailing one, then the basename (an empty prefix gives the
\* basename alone); a successful upload stores the object at that key and
\* reports that key
C9_KeyFromPrefix ==
    (op.name = "upload" /\ calls # <<>>) =>
        LET prefix == parse_s3_path(op.dst).val[2]
            b == parse_s3_path(op.dst).val[1]
            key == (IF prefix = <<>> \/ prefix[Len(prefix)] = Slash
                    THEN prefix ELSE prefix \o <<Slash>>) \o FileName(op.src)
        IN  /\ calls[1].key = key
            /\ ret = RetTrue =>
                  /\ <<b, key>> \in DOMAIN store
                  /\ log[Len(log)].arg = S3Scheme \o b \o <<Slash>> \o key

\* C9 witness: f.csv was uploaded to s3://b/d, a prefix without trailing slash,
\* and stored at d/f.csv
C9_Witness ==
    /\ op.name = "upload"
    /\ op.dst = S3Scheme \o Bucket \o <<"/", "d">>
    /\ ret = RetTrue
    /\ calls[1].key = <<"d", "/">> \o FCsv

\* C10: download creates the local directory if absent before the transfer and
\* never removes a directory: after a download whose path parses and whose
\* transfer fails it returns failure and the directory it created exists; an
\* existing directory is left as it is
C10_DirectoryKept ==
    [][(op'.name = "download" /\ nops' = nops + 1) =>
          /\ dirs \subseteq dirs'
          /\ (calls' # <<>> /\ IsAbsent(op'.dst)) => Norm(op'.dst) \in dirs'
          /\ (calls' # <<>> /\ calls'[1].exc # "none") => (ret' = RetNone /\ files' = files)
          /\ (op'.dst # <<>> /\ Norm(op'.dst) \in dirs) => dirs' = dirs]_vars

\* C10 witness: a download into the missing directory out failed at the
\* backend, and out exists
C10_Witness ==
    /\ op.name = "download"
    /\ op.dst = OutDir
    /\ Len(calls) = 1
    /\ calls[1].exc = "ClientError"
    /\ ret = RetNone
    /\ OutDir \in dirs

====
